---- MODULE Spec2Model ----
(***************************************************************************)
(* Model of src/openssh/atomicio.c: xread, xwrite, read_in_full,           *)
(* write_in_full and send_in_full.                                         *)
(*                                                                         *)
(* A thread is at most inside one call.  The operating system's primitives *)
(* (read, write, send, poll) are the environment: each primitive call is   *)
(* one step whose outcome is chosen nondeterministically.  The calls of    *)
(* the primitives are appended to the calling thread's log, with the       *)
(* arguments the code passed and the result the primitive gave.            *)
(***************************************************************************)
EXTENDS Integers, Sequences, FiniteSets, TLC

\* ---------------------------------------------------------------- bounds
\* MAX_IO_BUFSIZ (atomicio.h), scaled down
MAX_IO_BUFSIZ == 3
\* requested lengths are 0 .. MAX_IO_BUFSIZ, and MAX_IO_BUFSIZ + MaxOver
MaxOver == 1
\* how many answers without progress (EINTR, EAGAIN, a zero-byte send, a
\* poll that fails or reports an error condition) one call may get and log;
\* beyond it the primitives and poll answer otherwise, except that send may
\* go on answering zero, unlogged
MaxRetries == 2

Threads == {1, 2}
\* each thread has a descriptor of its own
FdOf(t) == 2 + t
Lens == (0 .. MAX_IO_BUFSIZ) \cup {MAX_IO_BUFSIZ + MaxOver}

\* ---------------------------------------------------------------- errno
ENONE == "0"
EINTR == "EINTR"
EAGAIN == "EAGAIN"
EIO == "EIO"
EPIPE == "EPIPE"
ENOSPC == "ENOSPC"
\* a cause left in errno by the caller's own code, which no primitive here sets
ESTALE == "ESTALE"

POLLIN == "POLLIN"
POLLOUT == "POLLOUT"
POLLERR == "POLLERR"
MSG_NOSIGNAL == "MSG_NOSIGNAL"

Min(a, b) == IF a < b THEN a ELSE b

VARIABLES
  fn,       \* fn[t]: the function thread t is in (or was last in)
  pc,       \* pc[t]: "off", "idle", "loop" (about to attempt), "poll", "done"
  fd,       \* fd[t]: the descriptor argument
  req,      \* req[t]: the len argument as passed by the caller
  len,      \* len[t]: the local len, after the clamp
  pos,      \* pos[t]: the local pos
  errno,    \* errno[t]: the thread's errno
  ret,      \* ret[t]: the value returned (meaningful when pc[t] = "done")
  buf,      \* buf[t]: the caller's buffer, req[t] bytes
  log,      \* log[t]: the primitive calls made by this call, in order
  retries,  \* retries[t]: answers without progress so far in this call
  errno0,   \* errno0[t]: errno at call entry
  rd,       \* rd[t]: bytes consumed so far from the stream behind fd[t]
  out,      \* out[t]: bytes accepted so far by the descriptor fd[t]
  spins     \* spins[t]: parity of the zero-byte sends made after the log's
            \* budget of answers without progress was used up

vars == <<fn, pc, fd, req, len, pos, errno, ret, buf, log, retries, errno0, rd, out, spins>>

\* ------------------------------------------------------- the environment

\* errors other than EINTR/EAGAIN a primitive may fail with
HardErr(kind) == IF kind = "send" THEN {EPIPE} ELSE {EIO}

\* an answer that makes no progress
NoProgress(kind, o) ==
  \/ o.res = -1 /\ o.err \in {EINTR, EAGAIN}
  \/ kind = "send" /\ o.res = 0

\* the answers a primitive can give to a request of n bytes: a count
\* 0..n, or -1 with errno set
Outcomes(t, kind, n) ==
  LET all == {[res |-> k, err |-> ENONE] : k \in 0 .. n}
               \cup {[res |-> -1, err |-> e] : e \in HardErr(kind) \cup {EINTR, EAGAIN}}
  IN {o \in all : (o.res = -1 /\ o.err \in {EINTR, EAGAIN}) => retries[t] < MaxRetries}

\* an answer is logged unless it is a zero-byte send beyond the budget
Logged(t, kind, o) == NoProgress(kind, o) => retries[t] < MaxRetries

\* a poll that did not report the readiness asked for
Unready(ev, r) == r.res = -1 \/ r.revents # ev

\* the answers of poll(&pfd, 1, -1): ready, an error condition on the
\* descriptor, or a failure of poll itself
PollOutcomes(t, ev) ==
  LET all == {[res |-> 1, revents |-> ev, err |-> ENONE],
              [res |-> 1, revents |-> POLLERR, err |-> ENONE],
              [res |-> -1, revents |-> "", err |-> EINTR]}
  IN {r \in all : Unready(ev, r) => retries[t] < MaxRetries}

\* errno after a primitive answered o
SysErrno(t, o) == IF o.res = -1 THEN o.err ELSE errno[t]

\* read(fd, buf + off, n) answering o
sys_read(t, off, n, o) ==
  /\ log' = [log EXCEPT ![t] = Append(@,
        [kind |-> "read", fd |-> fd[t], off |-> off, size |-> n,
         flags |-> "", res |-> o.res, err |-> o.err])]
  /\ buf' = [buf EXCEPT ![t] = [i \in DOMAIN buf[t] |->
        IF o.res > 0 /\ i > off /\ i <= off + o.res
        THEN rd[t] + (i - off) ELSE buf[t][i]]]
  /\ rd' = [rd EXCEPT ![t] = IF o.res > 0 THEN @ + o.res ELSE @]
  /\ retries' = [retries EXCEPT ![t] = IF NoProgress("read", o) THEN @ + 1 ELSE @]
  /\ UNCHANGED <<out, spins>>

\* write(fd, buf + off, n) or send(fd, buf + off, n, flags) answering o
sys_write(t, kind, flags, off, n, o) ==
  /\ log' = [log EXCEPT ![t] =
        IF Logged(t, kind, o)
        THEN Append(@, [kind |-> kind, fd |-> fd[t], off |-> off, size |-> n,
                        flags |-> flags, res |-> o.res, err |-> o.err])
        ELSE @]
  /\ out' = [out EXCEPT ![t] =
        IF o.res > 0 THEN @ \o SubSeq(buf[t], off + 1, off + o.res) ELSE @]
  /\ retries' = [retries EXCEPT ![t] =
        IF NoProgress(kind, o) /\ Logged(t, kind, o) THEN @ + 1 ELSE @]
  /\ spins' = [spins EXCEPT ![t] = IF Logged(t, kind, o) THEN @ ELSE 1 - @]
  /\ UNCHANGED <<buf, rd>>

\* poll(&pfd, 1, -1) with pfd.fd = d, pfd.events = ev, answering r
sys_poll(t, d, ev, timeout, r) ==
  /\ log' = [log EXCEPT ![t] = Append(@,
        [kind |-> "poll", fd |-> d, events |-> ev, timeout |-> timeout,
         res |-> r.res, revents |-> r.revents, err |-> r.err])]
  /\ errno' = [errno EXCEPT ![t] = IF r.res = -1 THEN r.err ELSE @]
  /\ retries' = [retries EXCEPT ![t] = IF Unready(ev, r) THEN @ + 1 ELSE @]
  /\ UNCHANGED <<buf, rd, out, spins>>

\* the caller enters function f with descriptor d, length n and buffer b;
\* the descriptor is the caller's own, at the start of its stream
Enter(t, f, d, n, b) ==
  /\ pc[t] = "idle"
  /\ fn' = [fn EXCEPT ![t] = f]
  /\ fd' = [fd EXCEPT ![t] = d]
  /\ req' = [req EXCEPT ![t] = n]
  /\ buf' = [buf EXCEPT ![t] = b]
  /\ log' = [log EXCEPT ![t] = <<>>]
  /\ retries' = [retries EXCEPT ![t] = 0]
  /\ errno0' = [errno0 EXCEPT ![t] = errno[t]]
  /\ rd' = [rd EXCEPT ![t] = 0]
  /\ out' = [out EXCEPT ![t] = <<>>]
  /\ ret' = [ret EXCEPT ![t] = 0]
  /\ spins' = [spins EXCEPT ![t] = 0]
  /\ pc' = [pc EXCEPT ![t] = "loop"]
  /\ UNCHANGED errno

\* back in the caller, which has taken the result: the call's arguments and
\* the descriptor's history are gone, the stale local pos remains, and the
\* caller's own code leaves errno clear or holding a cause of its own
caller(t) ==
  /\ pc[t] = "done"
  /\ \E e \in {ENONE, ESTALE} :
       /\ errno' = [errno EXCEPT ![t] = e]
       /\ errno0' = [errno0 EXCEPT ![t] = e]
  /\ pc' = [pc EXCEPT ![t] = "idle"]
  /\ fn' = [fn EXCEPT ![t] = "none"]
  /\ fd' = [fd EXCEPT ![t] = FdOf(t)]
  /\ req' = [req EXCEPT ![t] = 0]
  /\ len' = [len EXCEPT ![t] = 0]
  /\ ret' = [ret EXCEPT ![t] = 0]
  /\ buf' = [buf EXCEPT ![t] = <<>>]
  /\ log' = [log EXCEPT ![t] = <<>>]
  /\ retries' = [retries EXCEPT ![t] = 0]
  /\ rd' = [rd EXCEPT ![t] = 0]
  /\ out' = [out EXCEPT ![t] = <<>>]
  /\ spins' = [spins EXCEPT ![t] = 0]
  /\ UNCHANGED pos

\* a buffer to read into (stale zeroes) and a buffer to write from
InBuf(n) == [i \in 1 .. n |-> 0]
OutBuf(n) == [i \in 1 .. n |-> i]

Init ==
  /\ fn = [t \in Threads |-> "none"]
  /\ pc = [t \in Threads |-> IF t = 1 THEN "idle" ELSE "off"]
  /\ fd = [t \in Threads |-> FdOf(t)]
  /\ req = [t \in Threads |-> 0]
  /\ len = [t \in Threads |-> 0]
  /\ pos = [t \in Threads |-> 0]
  /\ errno = [t \in Threads |-> ENONE]
  /\ ret = [t \in Threads |-> 0]
  /\ buf = [t \in Threads |-> <<>>]
  /\ log = [t \in Threads |-> <<>>]
  /\ retries = [t \in Threads |-> 0]
  /\ errno0 = [t \in Threads |-> ENONE]
  /\ rd = [t \in Threads |-> 0]
  /\ out = [t \in Threads |-> <<>>]
  /\ spins = [t \in Threads |-> 0]

\* ------------------------------------------------------------------ xread

xread_call(t) ==
  \E d \in {FdOf(t)}, n \in Lens :
    /\ Enter(t, "xread", d, n, InBuf(n))
    /\ len' = [len EXCEPT ![t] = IF n > MAX_IO_BUFSIZ THEN MAX_IO_BUFSIZ ELSE n]
    /\ UNCHANGED pos

\* variant: a short read is followed by another read, to fill the request
xread_attempt_fill(t) ==
  /\ pc[t] = "loop" /\ fn[t] = "xread"
  /\ \E o \in Outcomes(t, "read", len[t]) :
       LET nr == o.res
           e == SysErrno(t, o)
       IN /\ sys_read(t, 0, len[t], o)
          /\ errno' = [errno EXCEPT ![t] = e]
          /\ IF nr < 0 /\ e = EINTR
             THEN pc' = [pc EXCEPT ![t] = "loop"] /\ UNCHANGED ret
             ELSE IF nr < 0 /\ e = EAGAIN
             THEN pc' = [pc EXCEPT ![t] = "poll"] /\ UNCHANGED ret
             ELSE IF nr > 0 /\ nr < len[t] /\ retries[t] < MaxRetries
             THEN pc' = [pc EXCEPT ![t] = "loop"] /\ UNCHANGED ret
             ELSE pc' = [pc EXCEPT ![t] = "done"] /\ ret' = [ret EXCEPT ![t] = nr]
  /\ UNCHANGED <<fn, fd, req, len, pos, errno0>>

xread_attempt(t) ==
  /\ pc[t] = "loop" /\ fn[t] = "xread"
  /\ \E o \in Outcomes(t, "read", len[t]) :
       LET nr == o.res
           e == SysErrno(t, o)
       IN /\ sys_read(t, 0, len[t], o)
          /\ errno' = [errno EXCEPT ![t] = e]
          /\ IF nr < 0 /\ e = EINTR
             THEN pc' = [pc EXCEPT ![t] = "loop"] /\ UNCHANGED ret
             ELSE IF nr < 0 /\ e = EAGAIN
             THEN pc' = [pc EXCEPT ![t] = "poll"] /\ UNCHANGED ret
             ELSE pc' = [pc EXCEPT ![t] = "done"] /\ ret' = [ret EXCEPT ![t] = nr]
  /\ UNCHANGED <<fn, fd, req, len, pos, errno0>>

xread_poll(t) ==
  /\ pc[t] = "poll" /\ fn[t] = "xread"
  /\ \E r \in PollOutcomes(t, POLLIN) : sys_poll(t, fd[t], POLLIN, -1, r)
  /\ pc' = [pc EXCEPT ![t] = "loop"]
  /\ UNCHANGED <<fn, fd, req, len, pos, ret, errno0>>

\* ----------------------------------------------------------------- xwrite

\* variant: len is passed to write as the caller gave it
xwrite_call_noclamp(t) ==
  \E d \in {FdOf(t)}, n \in Lens :
    /\ Enter(t, "xwrite", d, n, OutBuf(n))
    /\ len' = [len EXCEPT ![t] = n]
    /\ UNCHANGED pos

xwrite_call(t) ==
  \E d \in {FdOf(t)}, n \in Lens :
    /\ Enter(t, "xwrite", d, n, OutBuf(n))
    /\ len' = [len EXCEPT ![t] = IF n > MAX_IO_BUFSIZ THEN MAX_IO_BUFSIZ ELSE n]
    /\ UNCHANGED pos

xwrite_attempt(t) ==
  /\ pc[t] = "loop" /\ fn[t] = "xwrite"
  /\ \E o \in Outcomes(t, "write", len[t]) :
       LET nw == o.res
           e == SysErrno(t, o)
       IN /\ sys_write(t, "write", "", 0, len[t], o)
          /\ errno' = [errno EXCEPT ![t] = e]
          /\ IF nw < 0 /\ e = EINTR
             THEN pc' = [pc EXCEPT ![t] = "loop"] /\ UNCHANGED ret
             ELSE IF nw < 0 /\ e = EAGAIN
             THEN pc' = [pc EXCEPT ![t] = "poll"] /\ UNCHANGED ret
             ELSE pc' = [pc EXCEPT ![t] = "done"] /\ ret' = [ret EXCEPT ![t] = nw]
  /\ UNCHANGED <<fn, fd, req, len, pos, errno0>>

\* variant: the poll copied from xread, waiting for POLLIN
xwrite_poll_pollin(t) ==
  /\ pc[t] = "poll" /\ fn[t] = "xwrite"
  /\ \E r \in PollOutcomes(t, POLLIN) : sys_poll(t, fd[t], POLLIN, -1, r)
  /\ pc' = [pc EXCEPT ![t] = "loop"]
  /\ UNCHANGED <<fn, fd, req, len, pos, ret, errno0>>

xwrite_poll(t) ==
  /\ pc[t] = "poll" /\ fn[t] = "xwrite"
  /\ \E r \in PollOutcomes(t, POLLOUT) : sys_poll(t, fd[t], POLLOUT, -1, r)
  /\ pc' = [pc EXCEPT ![t] = "loop"]
  /\ UNCHANGED <<fn, fd, req, len, pos, ret, errno0>>

\* ----------------------------------------------------------- read_in_full

\* variant: pos is not reset when the call starts
read_in_full_call_stale(t) ==
  \E d \in {FdOf(t)}, n \in Lens :
    /\ Enter(t, "read_in_full", d, n, InBuf(n))
    /\ len' = [len EXCEPT ![t] = IF n > MAX_IO_BUFSIZ THEN MAX_IO_BUFSIZ ELSE n]
    /\ UNCHANGED pos

read_in_full_call(t) ==
  \E d \in {FdOf(t)}, n \in Lens :
    /\ Enter(t, "read_in_full", d, n, InBuf(n))
    /\ len' = [len EXCEPT ![t] = IF n > MAX_IO_BUFSIZ THEN MAX_IO_BUFSIZ ELSE n]
    /\ pos' = [pos EXCEPT ![t] = 0]

\* variant: an unrecoverable error returns the partial count
read_in_full_case_err_partial(t, e) ==
  /\ errno' = [errno EXCEPT ![t] = e]
  /\ UNCHANGED pos
  /\ IF e = EINTR
     THEN pc' = [pc EXCEPT ![t] = "loop"] /\ UNCHANGED ret
     ELSE IF e = EAGAIN
     THEN pc' = [pc EXCEPT ![t] = "poll"] /\ UNCHANGED ret
     ELSE pc' = [pc EXCEPT ![t] = "done"] /\ ret' = [ret EXCEPT ![t] = pos[t]]

\* case -1: retry on EINTR, poll then retry on EAGAIN, else return -1
read_in_full_case_err(t, e) ==
  /\ errno' = [errno EXCEPT ![t] = e]
  /\ UNCHANGED pos
  /\ IF e = EINTR
     THEN pc' = [pc EXCEPT ![t] = "loop"] /\ UNCHANGED ret
     ELSE IF e = EAGAIN
     THEN pc' = [pc EXCEPT ![t] = "poll"] /\ UNCHANGED ret
     ELSE pc' = [pc EXCEPT ![t] = "done"] /\ ret' = [ret EXCEPT ![t] = -1]

\* variant: end-of-stream handled as write_in_full handles a zero-byte write
read_in_full_case_eof_fail(t) ==
  /\ errno' = [errno EXCEPT ![t] = EPIPE]
  /\ pc' = [pc EXCEPT ![t] = "done"]
  /\ ret' = [ret EXCEPT ![t] = -1]
  /\ UNCHANGED pos

\* variant: errno is one slot shared by all threads
read_in_full_case_eof_shared(t) ==
  /\ errno' = [u \in Threads |-> EPIPE]
  /\ pc' = [pc EXCEPT ![t] = "done"]
  /\ ret' = [ret EXCEPT ![t] = pos[t]]
  /\ UNCHANGED pos

\* case 0: EoF/EoT
read_in_full_case_eof(t) ==
  /\ errno' = [errno EXCEPT ![t] = EPIPE]
  /\ pc' = [pc EXCEPT ![t] = "done"]
  /\ ret' = [ret EXCEPT ![t] = pos[t]]
  /\ UNCHANGED pos

\* default: pos += nr
read_in_full_case_default(t, nr, e) ==
  /\ pos' = [pos EXCEPT ![t] = @ + nr]
  /\ errno' = [errno EXCEPT ![t] = e]
  /\ pc' = [pc EXCEPT ![t] = "loop"]
  /\ UNCHANGED ret

\* variant: the loop is entered while len >= pos
read_in_full_attempt_inclusive(t) ==
  /\ pc[t] = "loop" /\ fn[t] = "read_in_full"
  /\ len[t] >= pos[t]
  /\ \E o \in Outcomes(t, "read", len[t] - pos[t]) :
       LET nr == o.res
           e == SysErrno(t, o)
       IN /\ sys_read(t, pos[t], len[t] - pos[t], o)
          /\ IF nr = -1 THEN read_in_full_case_err(t, e)
             ELSE IF nr = 0 THEN read_in_full_case_eof(t)
             ELSE read_in_full_case_default(t, nr, e)
  /\ UNCHANGED <<fn, fd, req, len, errno0>>

\* one iteration of the while loop: the read and the switch on its result
read_in_full_attempt(t) ==
  /\ pc[t] = "loop" /\ fn[t] = "read_in_full"
  /\ len[t] > pos[t]
  /\ \E o \in Outcomes(t, "read", len[t] - pos[t]) :
       LET nr == o.res
           e == SysErrno(t, o)
       IN /\ sys_read(t, pos[t], len[t] - pos[t], o)
          /\ IF nr = -1 THEN read_in_full_case_err(t, e)
             ELSE IF nr = 0 THEN read_in_full_case_eof(t)
             ELSE read_in_full_case_default(t, nr, e)
  /\ UNCHANGED <<fn, fd, req, len, errno0>>

\* variant: a failed poll ends the call with -1
read_in_full_poll_checked(t) ==
  /\ pc[t] = "poll" /\ fn[t] = "read_in_full"
  /\ \E r \in PollOutcomes(t, POLLIN) :
       /\ sys_poll(t, fd[t], POLLIN, -1, r)
       /\ IF r.res = -1
          THEN pc' = [pc EXCEPT ![t] = "done"] /\ ret' = [ret EXCEPT ![t] = -1]
          ELSE pc' = [pc EXCEPT ![t] = "loop"] /\ UNCHANGED ret
  /\ UNCHANGED <<fn, fd, req, len, pos, errno0>>

read_in_full_poll(t) ==
  /\ pc[t] = "poll" /\ fn[t] = "read_in_full"
  /\ \E r \in PollOutcomes(t, POLLIN) : sys_poll(t, fd[t], POLLIN, -1, r)
  /\ pc' = [pc EXCEPT ![t] = "loop"]
  /\ UNCHANGED <<fn, fd, req, len, pos, ret, errno0>>

\* the loop condition fails: return pos
read_in_full_return(t) ==
  /\ pc[t] = "loop" /\ fn[t] = "read_in_full"
  /\ ~(len[t] > pos[t])
  /\ pc' = [pc EXCEPT ![t] = "done"]
  /\ ret' = [ret EXCEPT ![t] = pos[t]]
  /\ UNCHANGED <<fn, fd, req, len, pos, errno, buf, log, retries, errno0, rd, out, spins>>

\* ---------------------------------------------------------- write_in_full

write_in_full_call(t) ==
  \E d \in {FdOf(t)}, n \in Lens :
    /\ Enter(t, "write_in_full", d, n, OutBuf(n))
    /\ len' = [len EXCEPT ![t] = IF n > MAX_IO_BUFSIZ THEN MAX_IO_BUFSIZ ELSE n]
    /\ pos' = [pos EXCEPT ![t] = 0]

\* variant: an interrupted write restarts the transfer from offset 0
write_in_full_case_err_restart(t, e) ==
  /\ errno' = [errno EXCEPT ![t] = e]
  /\ IF e = EINTR
     THEN pc' = [pc EXCEPT ![t] = "loop"] /\ pos' = [pos EXCEPT ![t] = 0] /\ UNCHANGED ret
     ELSE IF e = EAGAIN
     THEN pc' = [pc EXCEPT ![t] = "poll"] /\ UNCHANGED <<pos, ret>>
     ELSE pc' = [pc EXCEPT ![t] = "done"] /\ ret' = [ret EXCEPT ![t] = -1] /\ UNCHANGED pos

\* case -1
write_in_full_case_err(t, e) ==
  /\ errno' = [errno EXCEPT ![t] = e]
  /\ UNCHANGED pos
  /\ IF e = EINTR
     THEN pc' = [pc EXCEPT ![t] = "loop"] /\ UNCHANGED ret
     ELSE IF e = EAGAIN
     THEN pc' = [pc EXCEPT ![t] = "poll"] /\ UNCHANGED ret
     ELSE pc' = [pc EXCEPT ![t] = "done"] /\ ret' = [ret EXCEPT ![t] = -1]

\* variant: a zero-byte write handled as read_in_full handles end-of-stream
write_in_full_case_zero_partial(t) ==
  /\ errno' = [errno EXCEPT ![t] = EPIPE]
  /\ pc' = [pc EXCEPT ![t] = "done"]
  /\ ret' = [ret EXCEPT ![t] = pos[t]]
  /\ UNCHANGED pos

\* case 0: errno = ENOSPC; return -1
write_in_full_case_zero(t) ==
  /\ errno' = [errno EXCEPT ![t] = ENOSPC]
  /\ pc' = [pc EXCEPT ![t] = "done"]
  /\ ret' = [ret EXCEPT ![t] = -1]
  /\ UNCHANGED pos

\* variant: pos = nw, the count is assigned instead of accumulated
write_in_full_case_default_assign(t, nw, e) ==
  /\ pos' = [pos EXCEPT ![t] = nw]
  /\ errno' = [errno EXCEPT ![t] = e]
  /\ pc' = [pc EXCEPT ![t] = "loop"]
  /\ UNCHANGED ret

\* default: pos += nw
write_in_full_case_default(t, nw, e) ==
  /\ pos' = [pos EXCEPT ![t] = @ + nw]
  /\ errno' = [errno EXCEPT ![t] = e]
  /\ pc' = [pc EXCEPT ![t] = "loop"]
  /\ UNCHANGED ret

write_in_full_attempt(t) ==
  /\ pc[t] = "loop" /\ fn[t] = "write_in_full"
  /\ len[t] > pos[t]
  /\ \E o \in Outcomes(t, "write", len[t] - pos[t]) :
       LET nw == o.res
           e == SysErrno(t, o)
       IN /\ sys_write(t, "write", "", pos[t], len[t] - pos[t], o)
          /\ IF nw = -1 THEN write_in_full_case_err(t, e)
             ELSE IF nw = 0 THEN write_in_full_case_zero(t)
             ELSE write_in_full_case_default(t, nw, e)
  /\ UNCHANGED <<fn, fd, req, len, errno0>>

write_in_full_poll(t) ==
  /\ pc[t] = "poll" /\ fn[t] = "write_in_full"
  /\ \E r \in PollOutcomes(t, POLLOUT) : sys_poll(t, fd[t], POLLOUT, -1, r)
  /\ pc' = [pc EXCEPT ![t] = "loop"]
  /\ UNCHANGED <<fn, fd, req, len, pos, ret, errno0>>

write_in_full_return(t) ==
  /\ pc[t] = "loop" /\ fn[t] = "write_in_full"
  /\ ~(len[t] > pos[t])
  /\ pc' = [pc EXCEPT ![t] = "done"]
  /\ ret' = [ret EXCEPT ![t] = pos[t]]
  /\ UNCHANGED <<fn, fd, req, len, pos, errno, buf, log, retries, errno0, rd, out, spins>>

\* ----------------------------------------------------------- send_in_full

send_in_full_call(t) ==
  \E d \in {FdOf(t)}, n \in Lens :
    /\ Enter(t, "send_in_full", d, n, OutBuf(n))
    /\ len' = [len EXCEPT ![t] = IF n > MAX_IO_BUFSIZ THEN MAX_IO_BUFSIZ ELSE n]
    /\ pos' = [pos EXCEPT ![t] = 0]

\* variant: no EAGAIN branch, EAGAIN is returned as any other error
send_in_full_case_err_noagain(t, e) ==
  /\ errno' = [errno EXCEPT ![t] = e]
  /\ UNCHANGED pos
  /\ IF e = EINTR
     THEN pc' = [pc EXCEPT ![t] = "loop"] /\ UNCHANGED ret
     ELSE pc' = [pc EXCEPT ![t] = "done"] /\ ret' = [ret EXCEPT ![t] = -1]

\* case -1
send_in_full_case_err(t, e) ==
  /\ errno' = [errno EXCEPT ![t] = e]
  /\ UNCHANGED pos
  /\ IF e = EINTR
     THEN pc' = [pc EXCEPT ![t] = "loop"] /\ UNCHANGED ret
     ELSE IF e = EAGAIN
     THEN pc' = [pc EXCEPT ![t] = "poll"] /\ UNCHANGED ret
     ELSE pc' = [pc EXCEPT ![t] = "done"] /\ ret' = [ret EXCEPT ![t] = -1]

\* variant: errno is cleared after a successful send
send_in_full_case_default_clear(t, nw, e) ==
  /\ pos' = [pos EXCEPT ![t] = @ + nw]
  /\ errno' = [errno EXCEPT ![t] = ENONE]
  /\ pc' = [pc EXCEPT ![t] = "loop"]
  /\ UNCHANGED ret

\* variant: a zero-byte send handled as write_in_full's case 0
send_in_full_case_default_zero(t, nw, e) ==
  IF nw = 0
  THEN /\ errno' = [errno EXCEPT ![t] = ENOSPC]
       /\ pc' = [pc EXCEPT ![t] = "done"]
       /\ ret' = [ret EXCEPT ![t] = -1]
       /\ UNCHANGED pos
  ELSE /\ pos' = [pos EXCEPT ![t] = @ + nw]
       /\ errno' = [errno EXCEPT ![t] = e]
       /\ pc' = [pc EXCEPT ![t] = "loop"]
       /\ UNCHANGED ret

\* default: pos += nw (there is no case 0: a zero result lands here)
send_in_full_case_default(t, nw, e) ==
  /\ pos' = [pos EXCEPT ![t] = @ + nw]
  /\ errno' = [errno EXCEPT ![t] = e]
  /\ pc' = [pc EXCEPT ![t] = "loop"]
  /\ UNCHANGED ret

send_in_full_attempt(t) ==
  /\ pc[t] = "loop" /\ fn[t] = "send_in_full"
  /\ len[t] > pos[t]
  /\ \E o \in Outcomes(t, "send", len[t] - pos[t]) :
       LET nw == o.res
           e == SysErrno(t, o)
       IN /\ sys_write(t, "send", MSG_NOSIGNAL, pos[t], len[t] - pos[t], o)
          /\ IF nw = -1 THEN send_in_full_case_err(t, e)
             ELSE send_in_full_case_default(t, nw, e)
  /\ UNCHANGED <<fn, fd, req, len, errno0>>

send_in_full_poll(t) ==
  /\ pc[t] = "poll" /\ fn[t] = "send_in_full"
  /\ \E r \in PollOutcomes(t, POLLOUT) : sys_poll(t, fd[t], POLLOUT, -1, r)
  /\ pc' = [pc EXCEPT ![t] = "loop"]
  /\ UNCHANGED <<fn, fd, req, len, pos, ret, errno0>>

send_in_full_return(t) ==
  /\ pc[t] = "loop" /\ fn[t] = "send_in_full"
  /\ ~(len[t] > pos[t])
  /\ pc' = [pc EXCEPT ![t] = "done"]
  /\ ret' = [ret EXCEPT ![t] = pos[t]]
  /\ UNCHANGED <<fn, fd, req, len, pos, errno, buf, log, retries, errno0, rd, out, spins>>

\* ------------------------------------------------------------------- Next

Next ==
  \E t \in Threads :
    \/ xread_call(t)
    \/ xread_attempt(t)
    \/ xread_poll(t)
    \/ xwrite_call(t)
    \/ xwrite_attempt(t)
    \/ xwrite_poll(t)
    \/ read_in_full_call(t)
    \/ read_in_full_attempt(t)
    \/ read_in_full_poll(t)
    \/ read_in_full_return(t)
    \/ write_in_full_call(t)
    \/ write_in_full_attempt(t)
    \/ write_in_full_poll(t)
    \/ write_in_full_return(t)
    \/ send_in_full_call(t)
    \/ send_in_full_attempt(t)
    \/ send_in_full_poll(t)
    \/ send_in_full_return(t)
    \/ caller(t)

Spec == Init /\ [][Next]_vars

\* the steps a running call of thread t takes by itself
Step(t) ==
  \/ xread_attempt(t)
  \/ xread_poll(t)
  \/ xwrite_attempt(t)
  \/ xwrite_poll(t)
  \/ read_in_full_attempt(t)
  \/ read_in_full_poll(t)
  \/ read_in_full_return(t)
  \/ write_in_full_attempt(t)
  \/ write_in_full_poll(t)
  \/ write_in_full_return(t)
  \/ send_in_full_attempt(t)
  \/ send_in_full_poll(t)
  \/ send_in_full_return(t)

\* a thread inside a call keeps executing, every primitive and every
\* readiness wait it calls returns, and (MaxRetries) the primitive fails
\* with EINTR or EAGAIN only finitely often in one call
FairSpec == Spec /\ \A t \in Threads : WF_vars(Step(t))

\* ---------------------------------------------------- reading the log

Full == {"read_in_full", "write_in_full", "send_in_full"}
Best == {"xread", "xwrite"}

IsPrim(r) == r.kind \in {"read", "write", "send"}
IsPoll(r) == r.kind = "poll"
\* a primitive attempt that failed with EINTR or EAGAIN
Transient(r) == IsPrim(r) /\ r.res = -1 /\ r.err \in {EINTR, EAGAIN}
\* a primitive attempt that ends a full transfer early: an unrecoverable
\* error, end-of-stream, or a zero-byte write
Terminal(r) ==
  /\ IsPrim(r)
  /\ \/ r.res = -1 /\ r.err \notin {EINTR, EAGAIN}
     \/ r.res = 0 /\ r.kind \in {"read", "write"}

RECURSIVE SumRes(_)
\* the bytes transferred by the successful attempts of a log
SumRes(s) ==
  IF s = <<>> THEN 0
  ELSE SumRes(SubSeq(s, 1, Len(s) - 1))
         + (IF IsPrim(s[Len(s)]) /\ s[Len(s)].res > 0 THEN s[Len(s)].res ELSE 0)

Last(s) == s[Len(s)]
Running(t) == pc[t] \in {"loop", "poll", "done"}

\* ----------------------------------------------------------------- claims

\* C1: whenever read_in_full, write_in_full or send_in_full returns without
\* having hit an unrecoverable error, a zero-byte write or end-of-stream, the
\* returned value equals the length the caller asked for, also for lengths
\* above MAX_IO_BUFSIZ.
C1_SuccessReturnsExactLen ==
  \A t \in Threads :
    (pc[t] = "done" /\ fn[t] \in Full
       /\ \A i \in DOMAIN log[t] : ~Terminal(log[t][i]))
    => ret[t] = req[t]

\* C2: read_in_full never returns more than the caller asked for, and when it
\* returns a non-negative count below the caller's length, this call has set
\* errno to EPIPE on end-of-stream.
C2_ShortReadHasEPIPE ==
  \A t \in Threads :
    (pc[t] = "done" /\ fn[t] = "read_in_full")
    => /\ ret[t] <= req[t]
       /\ (0 <= ret[t] /\ ret[t] < req[t])
            => /\ errno[t] = EPIPE
               /\ log[t] # <<>>
               /\ Last(log[t]).kind = "read" /\ Last(log[t]).res = 0

\* C3: in the full-transfer functions every attempt asks the primitive for
\* min(L - pos, MAX_IO_BUFSIZ) bytes at offset pos, L being the caller's
\* length and pos the bytes accumulated so far, and the call does not return
\* from its loop while pos < L.
C3_CapIsPerAttempt ==
  \A t \in Threads :
    (Running(t) /\ fn[t] \in Full)
    => /\ \A i \in DOMAIN log[t] :
            IsPrim(log[t][i])
            => LET before == SumRes(SubSeq(log[t], 1, i - 1))
               IN /\ log[t][i].off = before
                  /\ log[t][i].size = Min(req[t] - before, MAX_IO_BUFSIZ)
       /\ (pc[t] = "done" /\ \A i \in DOMAIN log[t] : ~Terminal(log[t][i]))
            => ~(pos[t] < req[t])

\* C4: in write_in_full a zero-byte result of write ends the call with -1 and
\* errno = ENOSPC, whatever pos has accumulated.
C4_ZeroWriteFails ==
  \A t \in Threads :
    (Running(t) /\ fn[t] = "write_in_full" /\ log[t] # <<>>
       /\ Last(log[t]).kind = "write" /\ Last(log[t]).res = 0)
    => pc[t] = "done" /\ ret[t] = -1 /\ errno[t] = ENOSPC

C4_Witness ==
  \E t \in Threads :
    /\ pc[t] = "done" /\ fn[t] = "write_in_full" /\ pos[t] > 0
    /\ Last(log[t]).kind = "write" /\ Last(log[t]).res = 0

\* C5: when read answers zero bytes while pos < len, read_in_full sets errno
\* to EPIPE and returns the sum of the counts of the earlier successful
\* attempts, which is strictly less than len.
C5_EofReturnsPartial ==
  \A t \in Threads :
    (Running(t) /\ fn[t] = "read_in_full" /\ log[t] # <<>>
       /\ Last(log[t]).kind = "read" /\ Last(log[t]).res = 0)
    => /\ pc[t] = "done"
       /\ errno[t] = EPIPE
       /\ ret[t] = SumRes(log[t])
       /\ ret[t] < len[t] /\ ret[t] < req[t]

\* bytes, then end-of-stream, on a request for more
C5_Witness ==
  \E t \in Threads :
    /\ pc[t] = "done" /\ fn[t] = "read_in_full"
    /\ Len(log[t]) >= 2 /\ ret[t] > 0 /\ ret[t] + 2 <= req[t]
    /\ Last(log[t]).kind = "read" /\ Last(log[t]).res = 0

\* C6: no call returns because an attempt failed with EINTR or EAGAIN: after
\* such an attempt the call is still running and about to attempt again (at
\* once, or after the readiness wait), and in the log of a call that has
\* returned every such attempt is followed by another attempt.
C6_TransientNeverSurfaced ==
  \A t \in Threads :
    (Running(t) /\ log[t] # <<>>)
    => /\ Transient(Last(SelectSeq(log[t], IsPrim)))
            => /\ pc[t] \in {"loop", "poll"}
               /\ fn[t] \in Full => len[t] > pos[t]
       /\ pc[t] = "done"
            => \A i \in DOMAIN log[t] :
                 Transient(log[t][i])
                 => \E j \in DOMAIN log[t] : j > i /\ IsPrim(log[t][j])

\* a call that came through EINTR and EAGAIN and returned a count
C6_Witness ==
  \E t \in Threads :
    /\ pc[t] = "done" /\ ret[t] > 0
    /\ \E i, j \in DOMAIN log[t] :
         /\ Transient(log[t][i]) /\ log[t][i].err = EINTR
         /\ Transient(log[t][j]) /\ log[t][j].err = EAGAIN

\* C7: after an attempt that failed with EAGAIN comes exactly one poll, with
\* no timeout, on the same descriptor, for POLLIN after a read and for
\* POLLOUT after a write or send, and then the next attempt; after an attempt
\* that failed with EINTR the next attempt comes with no poll in between.
C7_PollOnlyAfterEAGAIN ==
  \A t \in Threads :
    Running(t)
    => \A i \in DOMAIN log[t] :
         LET r == log[t][i]
             last == (i = Len(log[t]))
         IN /\ (IsPrim(r) /\ r.res = -1 /\ r.err = EAGAIN)
                 => /\ last => pc[t] = "poll"
                    /\ ~last
                         => LET p == log[t][i + 1]
                            IN /\ IsPoll(p)
                               /\ p.fd = r.fd
                               /\ p.timeout = -1
                               /\ p.events = (IF r.kind = "read" THEN POLLIN ELSE POLLOUT)
            /\ (IsPrim(r) /\ r.res = -1 /\ r.err = EINTR)
                 => /\ last => pc[t] = "loop"
                    /\ ~last => IsPrim(log[t][i + 1])
            /\ IsPoll(r)
                 => /\ i > 1 /\ IsPrim(log[t][i - 1])
                    /\ log[t][i - 1].res = -1 /\ log[t][i - 1].err = EAGAIN
                    /\ last => pc[t] = "loop"
                    /\ ~last => IsPrim(log[t][i + 1])

\* EAGAIN, poll, attempt and EINTR, attempt in one call of a writing function
C7_Witness ==
  \E t \in Threads :
    /\ Running(t) /\ fn[t] \in {"xwrite", "write_in_full", "send_in_full"}
    /\ \E i, j \in DOMAIN log[t] :
         /\ Transient(log[t][i]) /\ log[t][i].err = EAGAIN
         /\ i + 2 <= Len(log[t]) /\ IsPrim(log[t][i + 2])
         /\ Transient(log[t][j]) /\ log[t][j].err = EINTR
         /\ j + 1 <= Len(log[t])

\* the part of the buffer the call has not transferred yet is as the caller
\* passed it
BufferUntouched(t) ==
  IF fn[t] = "read_in_full"
  THEN \A k \in (pos[t] + 1) .. req[t] : buf[t][k] = 0
  ELSE buf[t] = OutBuf(req[t])

\* the attempt after a transient failure has the same offset and size
SameRetry(t) ==
  \A i, j \in DOMAIN log[t] :
    (/\ Transient(log[t][i]) /\ IsPrim(log[t][j]) /\ i < j
     /\ \A k \in (i + 1) .. (j - 1) : ~IsPrim(log[t][k]))
    => log[t][j].off = log[t][i].off /\ log[t][j].size = log[t][i].size

\* a step that is an attempt failing with EINTR or EAGAIN, or the poll after
\* it, leaves pos, len and the buffer as they were
RetryStepFrame(t) ==
  (\/ /\ pc[t] = "loop" /\ Len(log'[t]) = Len(log[t]) + 1
      /\ Transient(Last(log'[t]))
   \/ pc[t] = "poll")
  => pos'[t] = pos[t] /\ len'[t] = len[t] /\ buf'[t] = buf[t]

\* C8: in read_in_full, write_in_full and send_in_full an attempt failing with
\* EINTR or EAGAIN leaves pos and len unchanged, the next attempt has the same
\* offset and size, and no byte of the buffer outside [0, pos) is touched.
C8_RetryKeepsState ==
  /\ [](\A t \in Threads :
          (Running(t) /\ fn[t] \in Full) => SameRetry(t) /\ BufferUntouched(t))
  /\ [][\A t \in Threads : fn[t] \in Full => RetryStepFrame(t)]_vars

\* a transient failure after some bytes were transferred, then a new attempt
C8_Witness ==
  \E t \in Threads :
    /\ Running(t) /\ fn[t] \in Full
    /\ \E i \in DOMAIN log[t] :
         /\ Transient(log[t][i]) /\ log[t][i].off > 0
         /\ i < Len(log[t]) /\ IsPrim(Last(log[t]))

\* C9: in all five functions every read, write or send is asked for at most
\* MAX_IO_BUFSIZ bytes, whatever length the caller passed.
C9_AttemptSizeCapped ==
  \A t \in Threads :
    \A i \in DOMAIN log[t] :
      IsPrim(log[t][i]) => log[t][i].size <= MAX_IO_BUFSIZ

\* each function has attempted a transfer for a length above MAX_IO_BUFSIZ
C9_Witness ==
  \E t \in Threads :
    /\ fn[t] = "xwrite" /\ req[t] > MAX_IO_BUFSIZ
    /\ log[t] # <<>> /\ log[t][1].size = MAX_IO_BUFSIZ

\* C10: xread and xwrite end at the first attempt that does not fail with
\* EINTR or EAGAIN and return its result as it is, with the errno the
\* primitive set when it failed; no further attempt is made.
C10_BestEffortReturnsLastResult ==
  \A t \in Threads :
    (Running(t) /\ fn[t] \in Best)
    => /\ \A i \in DOMAIN log[t] :
            (IsPrim(log[t][i]) /\ i < Len(log[t])) => Transient(log[t][i])
       /\ pc[t] = "done"
            <=> (log[t] # <<>> /\ IsPrim(Last(log[t])) /\ ~Transient(Last(log[t])))
       /\ pc[t] = "done"
            => /\ ret[t] = Last(log[t]).res
               /\ Last(log[t]).res < 0 => errno[t] = Last(log[t]).err

\* a short count returned after a retry, with no attempt to fill the request
C10_Witness ==
  \E t \in Threads :
    /\ pc[t] = "done" /\ fn[t] = "xread"
    /\ ret[t] > 0 /\ ret[t] < len[t]
    /\ Len(log[t]) >= 2

\* an attempt that failed with an error other than EINTR and EAGAIN
HardFail(r) == IsPrim(r) /\ r.res = -1 /\ r.err \notin {EINTR, EAGAIN}

\* C11: in read_in_full, write_in_full and send_in_full an attempt that fails
\* with an error other than EINTR or EAGAIN ends the call at once: it returns
\* -1 whatever pos is, no primitive or poll is called after it, and errno
\* holds the cause the primitive set.
C11_HardErrorEndsCall ==
  \A t \in Threads :
    (Running(t) /\ fn[t] \in Full)
    => \A i \in DOMAIN log[t] :
         HardFail(log[t][i])
         => /\ i = Len(log[t])
            /\ pc[t] = "done"
            /\ ret[t] = -1
            /\ errno[t] = log[t][i].err

\* an unrecoverable error after some bytes were transferred
C11_Witness ==
  \E t \in Threads :
    /\ pc[t] = "done" /\ fn[t] \in Full /\ pos[t] > 0
    /\ HardFail(Last(log[t]))

\* C12: under the fairness assumption (every readiness wait returns, EINTR
\* and EAGAIN do not go on forever) every call of read_in_full,
\* write_in_full or send_in_full eventually returns
C12_EveryFullCallReturns ==
  \A t \in Threads :
    (pc[t] \in {"loop", "poll"} /\ fn[t] \in Full) ~> (pc[t] = "done")

\* the same for the two functions that have a case 0
ReadWriteCallsReturn ==
  \A t \in Threads :
    (pc[t] \in {"loop", "poll"} /\ fn[t] \in {"read_in_full", "write_in_full"})
      ~> (pc[t] = "done")

\* C14: during a call of read_in_full, write_in_full or send_in_full,
\* 0 <= pos <= len, len being the clamped length; pos never decreases within
\* the call, and it is 0 when the call starts
C14_PosWithinLen ==
  /\ [](\A t \in Threads :
          (Running(t) /\ fn[t] \in Full) => (0 <= pos[t] /\ pos[t] <= len[t]))
  /\ [][\A t \in Threads :
          /\ (Running(t) /\ fn[t] \in Full /\ pc'[t] # "idle") => pos'[t] >= pos[t]
          /\ (pc[t] = "idle" /\ pc'[t] # "idle" /\ fn'[t] \in Full) => pos'[t] = 0]_vars

C14_Witness ==
  \E t \in Threads :
    /\ pc[t] = "loop" /\ fn[t] \in Full
    /\ pos[t] = len[t] /\ len[t] >= 2
    /\ Len(log[t]) >= 2
    /\ \A i \in DOMAIN log[t] : IsPrim(log[t][i]) /\ log[t][i].res > 0

\* the successful attempts of a log, in order
RECURSIVE Successes(_)
Successes(s) ==
  IF s = <<>> THEN <<>>
  ELSE LET r == s[Len(s)]
           h == Successes(SubSeq(s, 1, Len(s) - 1))
       IN IF IsPrim(r) /\ r.res > 0 THEN Append(h, r) ELSE h

\* C15: within one call of read_in_full, write_in_full or send_in_full the
\* k-th successful attempt transfers at the offset that is the sum of the
\* counts of the k-1 earlier ones, so the regions are contiguous, disjoint
\* and increasing; the bytes transferred so far are bytes [0, pos) of the
\* buffer, each once and in order, and [0, len) when the call completes
C15_ContiguousTransfers ==
  \A t \in Threads :
    (Running(t) /\ fn[t] \in Full)
    => LET ok == Successes(log[t])
       IN /\ \A k \in DOMAIN ok : ok[k].off = SumRes(SubSeq(ok, 1, k - 1))
          /\ pos[t] = SumRes(ok)
          /\ fn[t] \in {"write_in_full", "send_in_full"}
               => out[t] = SubSeq(buf[t], 1, pos[t])
          /\ fn[t] = "read_in_full"
               => /\ rd[t] = pos[t]
                  /\ \A i \in 1 .. pos[t] : buf[t][i] = i
          /\ (pc[t] = "done" /\ ret[t] = len[t] /\ fn[t] # "read_in_full")
               => out[t] = SubSeq(buf[t], 1, len[t])

C15_Witness ==
  \E t \in Threads :
    /\ pc[t] = "done" /\ fn[t] = "write_in_full"
    /\ ret[t] = len[t] /\ len[t] = MAX_IO_BUFSIZ
    /\ Len(Successes(log[t])) >= 2
    /\ Successes(log[t])[2].off = Successes(log[t])[1].res

\* errno as the primitive and poll calls of a log leave it, e0 being its
\* value before them: a failing call stores its cause, a successful one
\* leaves errno alone
RECURSIVE LeftBy(_, _)
LeftBy(s, e0) ==
  IF s = <<>> THEN e0
  ELSE IF s[Len(s)].res = -1 THEN s[Len(s)].err
  ELSE LeftBy(SubSeq(s, 1, Len(s) - 1), e0)

\* the call of thread t has ended in read_in_full's case 0
EndedAtEof(t) ==
  /\ pc[t] = "done" /\ fn[t] = "read_in_full" /\ log[t] # <<>>
  /\ Last(log[t]).kind = "read" /\ Last(log[t]).res = 0

\* the call of thread t has ended in write_in_full's case 0
EndedAtZeroWrite(t) ==
  /\ pc[t] = "done" /\ fn[t] = "write_in_full" /\ log[t] # <<>>
  /\ Last(log[t]).kind = "write" /\ Last(log[t]).res = 0

\* C16: the functions store into errno only in read_in_full's end-of-stream
\* case (EPIPE) and write_in_full's zero-byte-write case (ENOSPC); anywhere
\* else in the five functions errno is what the last primitive or poll call
\* left, and a call whose attempts all succeed returns with the errno it
\* was entered with
C16_ErrnoWrittenInTwoCases ==
  \A t \in Threads :
    Running(t)
    => /\ EndedAtEof(t) => errno[t] = EPIPE
       /\ EndedAtZeroWrite(t) => errno[t] = ENOSPC
       /\ (~EndedAtEof(t) /\ ~EndedAtZeroWrite(t))
            => errno[t] = LeftBy(log[t], errno0[t])
       /\ (/\ pc[t] = "done"
           /\ ~EndedAtEof(t) /\ ~EndedAtZeroWrite(t)
           /\ \A i \in DOMAIN log[t] : IsPrim(log[t][i]) /\ log[t][i].res >= 0)
            => errno[t] = errno0[t]

C16_Witness ==
  \E t \in Threads :
    /\ pc[t] = "done" /\ fn[t] = "send_in_full"
    /\ ret[t] = len[t] /\ Len(log[t]) >= 2
    /\ \A i \in DOMAIN log[t] : IsPrim(log[t][i]) /\ log[t][i].res > 0
    /\ errno0[t] = ESTALE /\ errno[t] = ESTALE

\* a send that answered zero
ZeroSend(r) == r.kind = "send" /\ r.res = 0

C18_ZeroLength ==
  \A t \in Threads :
    (Running(t) /\ req[t] = 0)
    => /\ fn[t] \in Full
            => /\ log[t] = <<>>
               /\ pc[t] # "poll"
               /\ errno[t] = errno0[t]
               /\ buf[t] = <<>> /\ rd[t] = 0 /\ out[t] = <<>>
               /\ pc[t] = "done" => ret[t] = 0
       /\ (fn[t] \in Best /\ pc[t] = "done")
            => /\ log[t] # <<>>
               /\ IsPrim(Last(log[t])) /\ ~Transient(Last(log[t]))
               /\ \A i \in DOMAIN log[t] :
                    /\ IsPrim(log[t][i]) => log[t][i].size = 0
                    /\ (IsPrim(log[t][i]) /\ ~Transient(log[t][i])) => i = Len(log[t])

C18_Witness ==
  \E t \in Threads :
    /\ pc[t] = "done" /\ fn[t] \in Full /\ req[t] = 0
    /\ ret[t] = 0 /\ errno[t] = ESTALE

\* C19: the outcome of poll is ignored by the five functions: whether it
\* reports readiness, an error condition on the descriptor, or fails, the
\* function does not return, pos, the buffer and the return value stay as
\* they are, and the next call is the primitive again with the arguments of
\* the attempt before the poll
C19_PollOutcomeIgnored ==
  /\ [](\A t \in Threads :
          Running(t)
          => \A i \in DOMAIN log[t] :
               IsPoll(log[t][i])
               => /\ i > 1
                  /\ IF i = Len(log[t])
                     THEN pc[t] = "loop"
                     ELSE /\ IsPrim(log[t][i + 1])
                          /\ log[t][i + 1].kind = log[t][i - 1].kind
                          /\ log[t][i + 1].fd = log[t][i - 1].fd
                          /\ log[t][i + 1].off = log[t][i - 1].off
                          /\ log[t][i + 1].size = log[t][i - 1].size
                          /\ log[t][i + 1].flags = log[t][i - 1].flags)
  /\ [][\A t \in Threads :
          (pc[t] = "poll" /\ pc'[t] # "poll")
          => /\ pc'[t] = "loop"
             /\ pos'[t] = pos[t] /\ len'[t] = len[t]
             /\ ret'[t] = ret[t] /\ buf'[t] = buf[t]]_vars

C19_Witness ==
  \E t \in Threads :
    /\ Running(t) /\ fn[t] \in Full /\ pos[t] > 0
    /\ \E i \in DOMAIN log[t] :
         /\ i < Len(log[t])
         /\ IsPoll(log[t][i]) /\ log[t][i].res = -1
         /\ log[t][i + 1].res > 0

\* two threads, each ready to call
ConcInit ==
  /\ fn = [t \in Threads |-> "none"]
  /\ pc = [t \in Threads |-> "idle"]
  /\ fd = [t \in Threads |-> FdOf(t)]
  /\ req = [t \in Threads |-> 0]
  /\ len = [t \in Threads |-> 0]
  /\ pos = [t \in Threads |-> 0]
  /\ errno = [t \in Threads |-> ENONE]
  /\ ret = [t \in Threads |-> 0]
  /\ buf = [t \in Threads |-> <<>>]
  /\ log = [t \in Threads |-> <<>>]
  /\ retries = [t \in Threads |-> 0]
  /\ errno0 = [t \in Threads |-> ENONE]
  /\ rd = [t \in Threads |-> 0]
  /\ out = [t \in Threads |-> <<>>]
  /\ spins = [t \in Threads |-> 0]

\* the calls considered when two threads run: short requests, and at most
\* one answer without progress per call
ConcBound == \A t \in Threads : req[t] \in {0, 2} /\ retries[t] <= 1

ConcNext == Next /\ ConcBound'

SpecConc == ConcInit /\ [][ConcNext]_vars

\* the buffer of a read call after n bytes of the stream were stored in it
ReadInto(t, n) == [i \in 1 .. req[t] |-> IF i <= n THEN i ELSE 0]

\* what the code of the function of thread t computes from the arguments of
\* its call and the answers in its own log, and nothing else: the requests it
\* makes, pos, errno, the buffer, the bytes sent and the value returned
OwnRun(t) ==
  LET l == log[t]
      n == SumRes(l)
      full == fn[t] \in Full
      reads == fn[t] \in {"xread", "read_in_full"}
  IN /\ fd[t] = FdOf(t)
     /\ len[t] = Min(req[t], MAX_IO_BUFSIZ)
     /\ \A i \in DOMAIN l :
          /\ l[i].fd = FdOf(t)
          /\ IsPrim(l[i])
               => LET before == IF full THEN SumRes(SubSeq(l, 1, i - 1)) ELSE 0
                  IN l[i].off = before /\ l[i].size = len[t] - before
     /\ full => pos[t] = n
     /\ errno[t] = IF EndedAtEof(t) THEN EPIPE
                   ELSE IF EndedAtZeroWrite(t) THEN ENOSPC
                   ELSE LeftBy(l, errno0[t])
     /\ buf[t] = IF reads THEN ReadInto(t, n) ELSE OutBuf(req[t])
     /\ rd[t] = IF reads THEN n ELSE 0
     /\ out[t] = IF reads THEN <<>> ELSE SubSeq(OutBuf(req[t]), 1, n)
     /\ pc[t] = "done"
          => ret[t] = IF l = <<>> THEN 0
                      ELSE IF ~full THEN Last(l).res
                      ELSE IF HardFail(Last(l)) \/ EndedAtZeroWrite(t) THEN -1
                      ELSE n

\* C13: two calls running at the same time on distinct descriptors and
\* buffers, each thread with its own errno, do not interfere: in every
\* interleaving the return value, errno and buffer of each call are those
\* its function produces alone from the same answers of the primitives
C13_NoInterference ==
  \A t \in Threads : Running(t) => OwnRun(t)

C13_Witness ==
  /\ pc[1] = "done" /\ fn[1] = "read_in_full"
  /\ ret[1] = 1 /\ errno[1] = EPIPE /\ Len(log[1]) >= 2
  /\ pc[2] = "done" /\ fn[2] = "write_in_full"
  /\ ret[2] = 2 /\ errno[2] = ENONE /\ Len(log[2]) >= 2

====
